---- MODULE Spec2Model ----
(***************************************************************************)
(* AnythingLLM client SDK (src/services/anythingllm-sdk.ts), its method    *)
(* registry SDK_METHODS, and the dashboard component that drives them      *)
(* (src/App.tsx), against a mock AnythingLLM server.                        *)
(*                                                                         *)
(* Two specifications:                                                     *)
(*   SpecClient  a caller that uses one AnythingLLMClient operation at a   *)
(*               time and awaits it (the SDK on its own);                  *)
(*   Spec        the App component: its React state, its handlers and the  *)
(*               requests they leave in flight.                            *)
(*                                                                         *)
(* JavaScript strings are TLA+ strings; template literals are \o.          *)
(* A thrown error is a result [ok |-> FALSE, name, error |-> message].      *)
(***************************************************************************)
EXTENDS Integers, Sequences, FiniteSets, TLC

VARIABLES
    server,      \* the mock server: the workspaces it holds, the next id
    call,        \* SpecClient: the last SDK call (client, op, args, request, outcome, result)
                 \* Spec: the execution the result pane waits for (history, not App state)
    created,     \* SpecClient: names created successfully, no delete issued since
    deleted,     \* SpecClient: slugs whose delete has succeeded
    config,      \* App: AppConfig {provider, host, port, model, apiKey}
    status,      \* App: ConnectionStatus
    error,       \* App: error text or Null
    response,    \* App: quick-prompt response text or Null
    isLoading,   \* App: a quick prompt is running
    availableWorkspaces, \* App: last fetched workspace list
    selectedMethodIdx,   \* App: index into SDK_METHODS (0-based, as in the code)
    methodArgs,  \* App: parameter name -> bound value
    apiResult,   \* App: playground output text or Null
    inflight,    \* App: the async handlers awaiting a response
    sent         \* App: number of requests issued so far

vars == <<server, call, created, deleted, config, status, error, response, isLoading,
          availableWorkspaces, selectedMethodIdx, methodArgs, apiResult,
          inflight, sent>>

appVars == <<config, status, error, response, isLoading, availableWorkspaces,
             selectedMethodIdx, methodArgs, apiResult, inflight, sent>>


----------------------------------------------------------------------------
(* Bounds *)

\* workspaces the mock server creates in one run
MaxCreated == 2
\* requests the App issues in one run
MaxSent == 2

----------------------------------------------------------------------------
(* JavaScript values *)

\* null / no value yet in a useState<string | null>
Null == "\\null"

\* {} : an object with no fields
EmptyObject == [k \in {} |-> TRUE]

\* s.includes(sub)
Includes(s, sub) ==
    \E i \in 1..(Len(s) - Len(sub) + 1) : SubSeq(s, i, i + Len(sub) - 1) = sub

\* s.startsWith(p)
StartsWith(s, p) == Len(s) >= Len(p) /\ SubSeq(s, 1, Len(p)) = p

\* String.prototype.trim, for the blank this model uses (space)
RECURSIVE Trim(_)
Trim(s) ==
    IF Len(s) = 0 THEN s
    ELSE IF SubSeq(s, 1, 1) = " " THEN Trim(SubSeq(s, 2, Len(s)))
    ELSE IF SubSeq(s, Len(s), Len(s)) = " " THEN Trim(SubSeq(s, 1, Len(s) - 1))
    ELSE s

\* host.replace(/\/$/, '') : removes one slash at the end of the string
StripTrailingSlash(host) ==
    IF Len(host) > 0 /\ SubSeq(host, Len(host), Len(host)) = "/"
    THEN SubSeq(host, 1, Len(host) - 1)
    ELSE host

----------------------------------------------------------------------------
(* constants.ts *)

DEFAULT_PROVIDER == "anythingllm"
DEFAULT_HOST == "http://localhost"
DEFAULT_OLLAMA_PORT == "11434"
DEFAULT_ANYTHINGLLM_PORT == "3001"
DEFAULT_MODEL == "mini"
DEFAULT_API_KEY == "FNSXGP0-ABZMZRW-HNRGGHG-NXA90ZQ"

----------------------------------------------------------------------------
(* AnythingLLMClient *)

\* constructor(host, port, apiKey)
AnythingLLMClient(host, port, apiKey) ==
    [baseUrl |-> StripTrailingSlash(host) \o ":" \o port \o "/api/v1",
     apiKey  |-> Trim(apiKey)]

headers_NoAccept(client) ==
    [Authorization |-> "Bearer " \o client.apiKey,
     ContentType   |-> "application/json"]

\* private get headers()
headers(client) ==
    [Authorization |-> "Bearer " \o client.apiKey,
     ContentType   |-> "application/json",
     Accept        |-> "application/json"]

\* response.ok
Ok(out) == out.status \in 200..299

\* a value returned by an async method
Return(v) == [ok |-> TRUE, value |-> v]

\* an error the caller catches: its constructor name and its message
ThrowAs(name, msg) == [ok |-> FALSE, name |-> name, error |-> msg]

\* throw new Error(msg)
Throw(msg) == ThrowAs("Error", msg)

\* the value of `undefined` where a result is read off a missing field
Undefined == [undefined |-> TRUE]

\* the rejection of fetch (a TypeError) or of response.json() (a SyntaxError)
\* propagates to the caller as it is: no method but validateConnection has a try
Propagated(out) ==
    IF out.kind = "reject" THEN ThrowAs("TypeError", out.message)
    ELSE ThrowAs("SyntaxError", "Unexpected token < in JSON at position 0")

\* error.message || 'Network Error'
MessageOr(message, fallback) == IF message = "" THEN fallback ELSE message

\* Each method is two operators: <name>Fetch is the argument of its fetch
\* call, <name> is what the method makes of the outcome of that fetch. An
\* outcome is [kind |-> "reject", message] (fetch rejected) or
\* [kind |-> "response", status, statusText, text, jsonOk, data].

validateConnectionFetch(client) ==
    [method |-> "GET", url |-> client.baseUrl \o "/auth", headers |-> headers(client)]

validateConnection_NetworkErrorThrows(out) ==
    IF out.kind = "reject" THEN Propagated(out)
    ELSE IF out.status = 200 THEN Return([authenticated |-> TRUE])
    ELSE IF out.status = 401 \/ out.status = 403
         THEN Return([authenticated |-> FALSE, error |-> "Invalid API Key"])
    ELSE Return([authenticated |-> FALSE,
                 error |-> "Server returned " \o ToString(out.status) \o " " \o out.statusText])

validateConnection_AnyOk(out) ==
    IF out.kind = "reject"
    THEN Return([authenticated |-> FALSE, error |-> MessageOr(out.message, "Network Error")])
    ELSE IF Ok(out) THEN Return([authenticated |-> TRUE])
    ELSE IF out.status = 401 \/ out.status = 403
         THEN Return([authenticated |-> FALSE, error |-> "Invalid API Key"])
    ELSE Return([authenticated |-> FALSE,
                 error |-> "Server returned " \o ToString(out.status) \o " " \o out.statusText])

validateConnection_No403(out) ==
    IF out.kind = "reject"
    THEN Return([authenticated |-> FALSE, error |-> MessageOr(out.message, "Network Error")])
    ELSE IF out.status = 200 THEN Return([authenticated |-> TRUE])
    ELSE IF out.status = 401
         THEN Return([authenticated |-> FALSE, error |-> "Invalid API Key"])
    ELSE Return([authenticated |-> FALSE,
                 error |-> "Server returned " \o ToString(out.status) \o " " \o out.statusText])

validateConnection(out) ==
    IF out.kind = "reject"
    THEN Return([authenticated |-> FALSE, error |-> MessageOr(out.message, "Network Error")])
    ELSE IF out.status = 200 THEN Return([authenticated |-> TRUE])
    ELSE IF out.status = 401 \/ out.status = 403
         THEN Return([authenticated |-> FALSE, error |-> "Invalid API Key"])
    ELSE Return([authenticated |-> FALSE,
                 error |-> "Server returned " \o ToString(out.status) \o " " \o out.statusText])

\* data.field || []
FieldOrEmpty(data, field) == IF field \in DOMAIN data THEN data[field] ELSE <<>>

\* data.field
Field(data, field) == IF field \in DOMAIN data THEN data[field] ELSE Undefined

getWorkspacesFetch(client) ==
    [method |-> "GET", url |-> client.baseUrl \o "/workspaces", headers |-> headers(client)]

getWorkspaces_WrongField(out) ==
    IF out.kind = "reject" THEN Propagated(out)
    ELSE IF ~Ok(out) THEN Throw(out.statusText)
    ELSE IF ~out.jsonOk THEN Propagated(out)
    ELSE Return(FieldOrEmpty(out.data, "workspace"))

getWorkspaces_NoFallback(out) ==
    IF out.kind = "reject" THEN Propagated(out)
    ELSE IF ~Ok(out) THEN Throw(out.statusText)
    ELSE IF ~out.jsonOk THEN Propagated(out)
    ELSE IF "workspaces" \in DOMAIN out.data THEN Return(out.data.workspaces)
    ELSE Throw("workspaces is undefined")

getWorkspaces(out) ==
    IF out.kind = "reject" THEN Propagated(out)
    ELSE IF ~Ok(out) THEN Throw(out.statusText)
    ELSE IF ~out.jsonOk THEN Propagated(out)
    ELSE Return(FieldOrEmpty(out.data, "workspaces"))

getWorkspaceFetch(client, slug) ==
    [method |-> "GET", url |-> client.baseUrl \o "/workspace/" \o slug,
     headers |-> headers(client)]

getWorkspace(slug, out) ==
    IF out.kind = "reject" THEN Propagated(out)
    ELSE IF ~Ok(out) THEN Throw("Workspace '" \o slug \o "' not found or error.")
    ELSE IF ~out.jsonOk THEN Propagated(out)
    ELSE Return(Field(out.data, "workspace"))

createWorkspaceFetch(client, name) ==
    [method |-> "POST", url |-> client.baseUrl \o "/workspace/new",
     headers |-> headers(client), body |-> [name |-> name]]

createWorkspace(out) ==
    IF out.kind = "reject" THEN Propagated(out)
    ELSE IF ~Ok(out) THEN Throw("Failed to create workspace: " \o out.text)
    ELSE IF ~out.jsonOk THEN Propagated(out)
    ELSE Return(Field(out.data, "workspace"))

deleteWorkspaceFetch(client, slug) ==
    [method |-> "DELETE", url |-> client.baseUrl \o "/workspace/" \o slug,
     headers |-> headers(client)]

deleteWorkspace_IgnoresStatus(out) ==
    IF out.kind = "reject" THEN Propagated(out)
    ELSE Return([success |-> TRUE])

deleteWorkspace(out) ==
    IF out.kind = "reject" THEN Propagated(out)
    ELSE IF ~Ok(out) THEN Throw("Failed to delete workspace: " \o out.text)
    ELSE Return([success |-> TRUE])

updateEmbeddingsFetch(client, slug) ==
    [method |-> "POST", url |-> client.baseUrl \o "/workspace/" \o slug \o "/update-embeddings",
     headers |-> headers(client)]

updateEmbeddings(out) ==
    IF out.kind = "reject" THEN Propagated(out)
    ELSE IF ~Ok(out) THEN Throw("Failed to update embeddings: " \o out.text)
    ELSE IF ~out.jsonOk THEN Propagated(out)
    ELSE Return([success |-> TRUE, response |-> out.data])

\* The parameter list (slug, message, mode = 'chat'): args is the sequence of
\* arguments the caller passes; the default applies when the caller passes
\* no third argument.
sendChatMode_AlwaysChat(args) == "chat"

sendChatMode(args) == IF Len(args) >= 3 THEN args[3] ELSE "chat"

sendChatFetch(client, args) ==
    [method |-> "POST", url |-> client.baseUrl \o "/workspace/" \o args[1] \o "/chat",
     headers |-> headers(client),
     body |-> [message |-> args[2], mode |-> sendChatMode(args)]]

sendChat_StatusTextForBody(out) ==
    IF out.kind = "reject" THEN Propagated(out)
    ELSE IF ~Ok(out)
         THEN Throw("Chat failed (" \o ToString(out.status) \o "): " \o out.statusText)
    ELSE IF ~out.jsonOk THEN Propagated(out)
    ELSE Return([textResponse |-> Field(out.data, "textResponse"),
                 sources |-> FieldOrEmpty(out.data, "sources")])

sendChat(out) ==
    IF out.kind = "reject" THEN Propagated(out)
    ELSE IF ~Ok(out)
         THEN Throw("Chat failed (" \o ToString(out.status) \o "): " \o out.text)
    ELSE IF ~out.jsonOk THEN Propagated(out)
    ELSE Return([textResponse |-> Field(out.data, "textResponse"),
                 sources |-> FieldOrEmpty(out.data, "sources")])

getUsersFetch(client) ==
    [method |-> "GET", url |-> client.baseUrl \o "/system/users", headers |-> headers(client)]

getUsers(out) ==
    IF out.kind = "reject" THEN Propagated(out)
    ELSE IF ~Ok(out)
         THEN Throw("Failed to fetch users (May require Admin privilege): " \o out.statusText)
    ELSE IF ~out.jsonOk THEN Propagated(out)
    ELSE Return(FieldOrEmpty(out.data, "users"))

----------------------------------------------------------------------------
(* The mock AnythingLLM server the client talks to *)

\* where the server listens, and the key it accepts
ServerBase == "http://localhost:3001/api/v1"
ValidKey == DEFAULT_API_KEY

\* reason phrases of the statuses used
StatusText(st) ==
    CASE st = 200 -> "OK"
      [] st = 201 -> "Created"
      [] st = 204 -> "No Content"
      [] st = 400 -> "Bad Request"
      [] st = 401 -> "Unauthorized"
      [] st = 403 -> "Forbidden"
      [] st = 404 -> "Not Found"
      [] st = 500 -> "Internal Server Error"
      [] OTHER    -> ""

Reject(msg) == [kind |-> "reject", message |-> msg]

Json(st, data) ==
    [kind |-> "response", status |-> st, statusText |-> StatusText(st),
     text |-> "", jsonOk |-> TRUE, data |-> data]

Text(st, statusText, text) ==
    [kind |-> "response", status |-> st, statusText |-> statusText,
     text |-> text, jsonOk |-> FALSE, data |-> EmptyObject]

\* statuses /auth is made to answer with, to cover every branch of the client
AuthStatuses == {200, 201, 204, 400, 401, 403, 404, 500}

InitServer == [workspaces |-> <<>>, nextId |-> 1]

NewWorkspace(id, name) == [id |-> id, name |-> name, slug |-> "ws-" \o ToString(id)]

SlugsHeld(srv) == {srv.workspaces[i].slug : i \in DOMAIN srv.workspaces}
NamesOf(list) == {list[i].name : i \in DOMAIN list}

Without(list, slug) == SelectSeq(list, LAMBDA w : w.slug # slug)

\* the part of the url after the server's base
PathOf(url) == SubSeq(url, Len(ServerBase) + 1, Len(url))

Stay(srv, out) == [out |-> out, server |-> srv]

\* What the server does with a request it received and authorised: the
\* outcome and the server's next state.
Handle(srv, req) ==
    LET path == PathOf(req.url)
        held == {i \in DOMAIN srv.workspaces :
                    path = "/workspace/" \o srv.workspaces[i].slug}
        chat == {i \in DOMAIN srv.workspaces :
                    path = "/workspace/" \o srv.workspaces[i].slug \o "/chat"}
        emb  == {i \in DOMAIN srv.workspaces :
                    path = "/workspace/" \o srv.workspaces[i].slug \o "/update-embeddings"}
    IN
    IF req.method = "GET" /\ path = "/auth"
    THEN {Stay(srv, Json(200, [authenticated |-> TRUE]))}
    ELSE IF req.method = "GET" /\ path = "/workspaces"
    THEN {Stay(srv, Json(200, [workspaces |-> srv.workspaces]))}
         \cup (IF srv.workspaces = <<>> THEN {Stay(srv, Json(200, EmptyObject))} ELSE {})
    ELSE IF req.method = "POST" /\ path = "/workspace/new"
    THEN IF srv.nextId > MaxCreated
         THEN {Stay(srv, Text(500, StatusText(500), "Workspace limit reached"))}
         ELSE LET w == NewWorkspace(srv.nextId, req.body.name)
              IN {[out |-> Json(200, [workspace |-> w]),
                   server |-> [workspaces |-> Append(srv.workspaces, w),
                               nextId |-> srv.nextId + 1]]}
    ELSE IF req.method = "GET" /\ held # {}
    THEN {Stay(srv, Json(200, [workspace |-> srv.workspaces[CHOOSE i \in held : TRUE]]))}
    ELSE IF req.method = "DELETE" /\ held # {}
    THEN {[out |-> Text(200, StatusText(200), "OK"),
           server |-> [srv EXCEPT !.workspaces =
                          Without(@, srv.workspaces[CHOOSE i \in held : TRUE].slug)]]}
    ELSE IF req.method = "POST" /\ emb # {}
    THEN {Stay(srv, Json(200, [success |-> TRUE]))}
    ELSE IF req.method = "POST" /\ chat # {}
    THEN {Stay(srv, Json(200, [textResponse |-> "reply:" \o req.body.mode, sources |-> <<>>])),
          Stay(srv, Json(200, [textResponse |-> "reply:" \o req.body.mode,
                               sources |-> <<[title |-> "doc"]>>]))}
    ELSE IF req.method = "GET" /\ path = "/system/users"
    THEN {Stay(srv, Json(200, [users |-> <<[id |-> 1, username |-> "admin", role |-> "admin"]>>])),
          Stay(srv, Text(401, StatusText(401), "Unauthorized"))}
    ELSE {Stay(srv, Text(404, StatusText(404), "Not Found"))}

\* A fetch of req while network and server work: a request that does not
\* reach the server is rejected, one with a wrong key is refused, any other
\* is handled.
Served(srv, req) ==
    IF ~StartsWith(req.url, ServerBase \o "/")
    THEN {Stay(srv, Reject("Failed to fetch"))}
    ELSE IF req.headers.Authorization # "Bearer " \o ValidKey
    THEN {Stay(srv, Text(403, StatusText(403), "No valid api key found."))}
    ELSE Handle(srv, req)

\* ... or while the connection drops
Dropped(srv, req) == {Stay(srv, Reject("Failed to fetch"))}

\* ... or while the server fails
Failed(srv, req) ==
    IF StartsWith(req.url, ServerBase \o "/")
    THEN {Stay(srv, Text(500, StatusText(500), "Internal Server Error"))}
    ELSE {}

\* Every outcome a fetch of req can have.
Outcomes(srv, req) == Served(srv, req) \cup Dropped(srv, req) \cup Failed(srv, req)

\* /auth answered with any status, with or without a reason phrase (HTTP/2
\* sends none), and a fetch rejected with or without a message
AuthOutcomes(srv, req) ==
    Outcomes(srv, req)
    \cup {Stay(srv, Reject(""))}
    \cup (IF StartsWith(req.url, ServerBase \o "/")
          THEN {Stay(srv, Text(st, StatusText(st), "")) : st \in AuthStatuses}
               \cup {Stay(srv, Text(st, "", "")) : st \in AuthStatuses}
          ELSE {})

\* /system/users refused or failed, with the reason phrase of the status or
\* with none (HTTP/2 sends none, and response.statusText is then empty)
UsersStatuses == {401, 403, 404, 500}

UsersRefusals ==
    {Text(st, StatusText(st), "") : st \in UsersStatuses}
    \cup {Text(st, "", "") : st \in UsersStatuses}

UsersOutcomes(srv, req) ==
    Outcomes(srv, req)
    \cup (IF StartsWith(req.url, ServerBase \o "/")
          THEN {Stay(srv, o) : o \in UsersRefusals}
          ELSE {})

----------------------------------------------------------------------------
(* SpecClient: one AnythingLLMClient, one awaited call at a time *)

\* arguments the caller draws from
Hosts == {DEFAULT_HOST, DEFAULT_HOST \o "/", DEFAULT_HOST \o "//"}
Keys == {DEFAULT_API_KEY, " " \o DEFAULT_API_KEY \o " ", ""}
Slugs == {"ws-" \o ToString(i) : i \in 1..MaxCreated} \cup {DEFAULT_MODEL}
Names == {"Q1 Finance", "Docs"}
Messages == {"hi"}
ChatArgs ==
    {<<s, m>> : s \in Slugs, m \in Messages}
    \cup {<<s, m, mode>> : s \in Slugs, m \in Messages, mode \in {"chat", "query"}}

InitClient ==
    /\ server = InitServer
    /\ \E h \in Hosts, k \in Keys :
          call = [client |-> AnythingLLMClient(h, DEFAULT_ANYTHINGLLM_PORT, k),
                  op |-> "constructor"]
    /\ created = {}
    /\ deleted = {}
    /\ config = [provider |-> DEFAULT_PROVIDER, host |-> DEFAULT_HOST,
                 port |-> DEFAULT_ANYTHINGLLM_PORT, model |-> DEFAULT_MODEL,
                 apiKey |-> DEFAULT_API_KEY]
    /\ status = "idle"
    /\ error = Null
    /\ response = Null
    /\ isLoading = FALSE
    /\ availableWorkspaces = <<>>
    /\ selectedMethodIdx = 0
    /\ methodArgs = EmptyObject
    /\ apiResult = Null
    /\ inflight = {}
    /\ sent = 0

\* the call completes: what was sent (every method body has one fetch and no
\* loop, so reqs is that one request), what came back, what the method made of it
Completes(op, args, req, o, res) ==
    /\ call' = [client |-> call.client, op |-> op, args |-> args,
                req |-> req, reqs |-> <<req>>, out |-> o.out, res |-> res]
    /\ server' = o.server
    /\ UNCHANGED appVars

CallValidateConnection ==
    LET req == validateConnectionFetch(call.client) IN
    \E o \in AuthOutcomes(server, req) :
        /\ Completes("validateConnection", <<>>, req, o, validateConnection(o.out))
        /\ UNCHANGED <<created, deleted>>

CallGetWorkspaces ==
    LET req == getWorkspacesFetch(call.client) IN
    \E o \in Outcomes(server, req) :
        /\ Completes("getWorkspaces", <<>>, req, o, getWorkspaces(o.out))
        /\ UNCHANGED <<created, deleted>>

CallGetWorkspace ==
    \E slug \in Slugs :
        LET req == getWorkspaceFetch(call.client, slug) IN
        \E o \in Outcomes(server, req) :
            /\ Completes("getWorkspace", <<slug>>, req, o, getWorkspace(slug, o.out))
            /\ UNCHANGED <<created, deleted>>

CallCreateWorkspace ==
    \E name \in Names :
        LET req == createWorkspaceFetch(call.client, name) IN
        \E o \in Outcomes(server, req) :
            LET res == createWorkspace(o.out) IN
            /\ Completes("createWorkspace", <<name>>, req, o, res)
            /\ created' = IF res.ok THEN created \cup {name} ELSE created
            /\ UNCHANGED deleted

CallDeleteWorkspace ==
    \E slug \in Slugs :
        LET req == deleteWorkspaceFetch(call.client, slug) IN
        \E o \in Outcomes(server, req) :
            LET res == deleteWorkspace(o.out) IN
            /\ Completes("deleteWorkspace", <<slug>>, req, o, res)
            /\ created' = {}
            /\ deleted' = IF res.ok THEN deleted \cup {slug} ELSE deleted

CallUpdateEmbeddings ==
    \E slug \in Slugs :
        LET req == updateEmbeddingsFetch(call.client, slug) IN
        \E o \in Outcomes(server, req) :
            /\ Completes("updateEmbeddings", <<slug>>, req, o, updateEmbeddings(o.out))
            /\ UNCHANGED <<created, deleted>>

CallSendChat ==
    \E args \in ChatArgs :
        LET req == sendChatFetch(call.client, args) IN
        \E o \in Outcomes(server, req) :
            /\ Completes("sendChat", args, req, o, sendChat(o.out))
            /\ UNCHANGED <<created, deleted>>

CallGetUsers ==
    LET req == getUsersFetch(call.client) IN
    \E o \in UsersOutcomes(server, req) :
        /\ Completes("getUsers", <<>>, req, o, getUsers(o.out))
        /\ UNCHANGED <<created, deleted>>

NextClient ==
    \/ CallValidateConnection
    \/ CallGetWorkspaces
    \/ CallGetWorkspace
    \/ CallCreateWorkspace
    \/ CallDeleteWorkspace
    \/ CallUpdateEmbeddings
    \/ CallSendChat
    \/ CallGetUsers

SpecClient == InitClient /\ [][NextClient]_vars

----------------------------------------------------------------------------
(* SDK_METHODS: the registry the playground renders and invokes *)

SDK_METHODS_Misnamed ==
    << [method |-> "getWorkspaces", label |-> "Get All Workspaces", params |-> <<>>],
       [method |-> "getWorkspace", label |-> "Get Workspace Details",
        params |-> << [name |-> "slug", type |-> "slug", required |-> TRUE] >>],
       [method |-> "createWorkspace", label |-> "Create Workspace",
        params |-> << [name |-> "name", type |-> "string", required |-> TRUE] >>],
       [method |-> "removeWorkspace", label |-> "Delete Workspace",
        params |-> << [name |-> "slug", type |-> "slug", required |-> TRUE] >>],
       [method |-> "updateEmbeddings", label |-> "Update Embeddings",
        params |-> << [name |-> "slug", type |-> "slug", required |-> TRUE] >>],
       [method |-> "sendChat", label |-> "Send Chat Message",
        params |-> << [name |-> "slug", type |-> "slug", required |-> TRUE],
                      [name |-> "message", type |-> "string", required |-> TRUE],
                      [name |-> "mode", type |-> "string", required |-> TRUE,
                       defaultValue |-> "chat"] >>],
       [method |-> "getUsers", label |-> "Get Users (Admin)", params |-> <<>>] >>

SDK_METHODS ==
    << [method |-> "getWorkspaces", label |-> "Get All Workspaces", params |-> <<>>],
       [method |-> "getWorkspace", label |-> "Get Workspace Details",
        params |-> << [name |-> "slug", type |-> "slug", required |-> TRUE] >>],
       [method |-> "createWorkspace", label |-> "Create Workspace",
        params |-> << [name |-> "name", type |-> "string", required |-> TRUE] >>],
       [method |-> "deleteWorkspace", label |-> "Delete Workspace",
        params |-> << [name |-> "slug", type |-> "slug", required |-> TRUE] >>],
       [method |-> "updateEmbeddings", label |-> "Update Embeddings",
        params |-> << [name |-> "slug", type |-> "slug", required |-> TRUE] >>],
       [method |-> "sendChat", label |-> "Send Chat Message",
        params |-> << [name |-> "slug", type |-> "slug", required |-> TRUE],
                      [name |-> "message", type |-> "string", required |-> TRUE],
                      [name |-> "mode", type |-> "string", required |-> TRUE,
                       defaultValue |-> "chat"] >>],
       [method |-> "getUsers", label |-> "Get Users (Admin)", params |-> <<>>] >>

\* SDK_METHODS[idx], idx counted from 0 as in the code
Definition(idx) == SDK_METHODS[idx + 1]
MethodIndexes == 0..(Len(SDK_METHODS) - 1)

\* typeof client[name] for an AnythingLLMClient instance
ClientMethods ==
    {"validateConnection", "getWorkspaces", "getWorkspace", "createWorkspace",
     "deleteWorkspace", "updateEmbeddings", "sendChat", "getUsers"}

TypeofMember(name) ==
    IF name \in ClientMethods \cup {"constructor"} THEN "function"
    ELSE IF name \in {"baseUrl", "apiKey"} THEN "string"
    ELSE IF name = "headers" THEN "object"
    ELSE "undefined"

\* fn.apply(client, args): the fetch the method issues ...
FetchOf(client, op, args) ==
    CASE op = "validateConnection" -> validateConnectionFetch(client)
      [] op = "getWorkspaces"      -> getWorkspacesFetch(client)
      [] op = "getWorkspace"       -> getWorkspaceFetch(client, args[1])
      [] op = "createWorkspace"    -> createWorkspaceFetch(client, args[1])
      [] op = "deleteWorkspace"    -> deleteWorkspaceFetch(client, args[1])
      [] op = "updateEmbeddings"   -> updateEmbeddingsFetch(client, args[1])
      [] op = "sendChat"           -> sendChatFetch(client, args)
      [] op = "getUsers"           -> getUsersFetch(client)

\* ... and what it resolves or rejects with
ResultOf(op, args, out) ==
    CASE op = "validateConnection" -> validateConnection(out)
      [] op = "getWorkspaces"      -> getWorkspaces(out)
      [] op = "getWorkspace"       -> getWorkspace(args[1], out)
      [] op = "createWorkspace"    -> createWorkspace(out)
      [] op = "deleteWorkspace"    -> deleteWorkspace(out)
      [] op = "updateEmbeddings"   -> updateEmbeddings(out)
      [] op = "sendChat"           -> sendChat(out)
      [] op = "getUsers"           -> getUsers(out)

----------------------------------------------------------------------------
(* App: the pre-fill effect *)

ParamNames(def) == {def.params[i].name : i \in DOMAIN def.params}
ParamNamed(def, n) == def.params[CHOOSE i \in DOMAIN def.params : def.params[i].name = n]

InitialArg_NoDefault(param, model) ==
    IF param.type = "slug" /\ model # "" THEN model
    ELSE ""

\* the body of definition.params.forEach: the value bound to one parameter
InitialArg(param, model) ==
    IF param.type = "slug" /\ model # "" THEN model
    ELSE IF "defaultValue" \in DOMAIN param THEN param.defaultValue
    ELSE ""

\* useEffect(..., [selectedMethodIdx, config.model]): initialArgs
InitialArgs(idx, model) ==
    [n \in ParamNames(Definition(idx)) |-> InitialArg(ParamNamed(Definition(idx), n), model)]

----------------------------------------------------------------------------
(* JSON.stringify(value, null, 2) *)

RECURSIVE Pad(_)
Pad(d) == IF d = 0 THEN "" ELSE "  " \o Pad(d - 1)

RECURSIVE JoinWith(_, _)
JoinWith(items, sep) ==
    IF Len(items) = 0 THEN ""
    ELSE IF Len(items) = 1 THEN items[1]
    ELSE items[1] \o sep \o JoinWith(Tail(items), sep)

JArray(items, d) ==
    IF Len(items) = 0 THEN "[]"
    ELSE "[\n" \o Pad(d + 1) \o JoinWith(items, ",\n" \o Pad(d + 1)) \o "\n" \o Pad(d) \o "]"

JObject(members, d) ==
    IF Len(members) = 0 THEN "{}"
    ELSE "{\n" \o Pad(d + 1) \o JoinWith(members, ",\n" \o Pad(d + 1)) \o "\n" \o Pad(d) \o "}"

JString(str) == "\"" \o str \o "\""
JMember(key, rendered) == JString(key) \o ": " \o rendered

WorkspaceJson(w, d) ==
    JObject(<<JMember("id", ToString(w.id)), JMember("name", JString(w.name)),
              JMember("slug", JString(w.slug))>>, d)

UserJson(u, d) ==
    JObject(<<JMember("id", ToString(u.id)), JMember("username", JString(u.username)),
              JMember("role", JString(u.role))>>, d)

SourcesJson(sources, d) ==
    JArray([i \in DOMAIN sources |->
               JObject(<<JMember("title", JString(sources[i].title))>>, d + 1)], d)

\* JSON.stringify(result, null, 2) of what method op returned; undefined
\* (a missing field) stringifies to undefined, which renders like null
Stringify(op, value) ==
    CASE op = "getWorkspaces" ->
            JArray([i \in DOMAIN value |-> WorkspaceJson(value[i], 1)], 0)
      [] op \in {"getWorkspace", "createWorkspace"} ->
            IF value = Undefined THEN Null ELSE WorkspaceJson(value, 0)
      [] op = "deleteWorkspace" -> JObject(<<JMember("success", "true")>>, 0)
      [] op = "updateEmbeddings" ->
            JObject(<<JMember("success", "true"),
                      JMember("response", JObject(<<JMember("success", "true")>>, 1))>>, 0)
      [] op = "sendChat" ->
            JObject(<<JMember("textResponse", JString(value.textResponse)),
                      JMember("sources", SourcesJson(value.sources, 1))>>, 0)
      [] op = "getUsers" ->
            JArray([i \in DOMAIN value |-> UserJson(value[i], 1)], 0)

----------------------------------------------------------------------------
(* services/ollama *)

OllamaBase == DEFAULT_HOST \o ":" \o DEFAULT_OLLAMA_PORT

IsNetworkMessage(msg) == Includes(msg, "Failed to fetch") \/ Includes(msg, "NetworkError")

ollamaCheckConnectionFetch(cfg) == [method |-> "GET", url |-> cfg.host \o ":" \o cfg.port]

ollamaCheckConnection(out) ==
    IF out.kind = "reject"
    THEN IF IsNetworkMessage(MessageOr(out.message, "Unknown error"))
         THEN Return([success |-> FALSE,
                      error |-> "Network Error. If Ollama is running, this is a CORS issue. Please restart Ollama with OLLAMA_ORIGINS=\"*\""])
         ELSE Return([success |-> FALSE, error |-> MessageOr(out.message, "Unknown error")])
    ELSE IF ~Ok(out)
    THEN Return([success |-> FALSE,
                 error |-> "Server returned " \o ToString(out.status) \o " " \o out.statusText])
    ELSE Return([success |-> TRUE])

ollamaGenerateResponseFetch(cfg, prompt) ==
    [method |-> "POST", url |-> cfg.host \o ":" \o cfg.port \o "/api/generate",
     headers |-> [ContentType |-> "application/json"],
     body |-> [model |-> cfg.model, prompt |-> prompt, stream |-> FALSE]]

ollamaGenerateResponse(out) ==
    IF out.kind = "reject"
    THEN IF IsNetworkMessage(out.message)
         THEN Throw("Network/CORS Error. Please restart Ollama with environment variable OLLAMA_ORIGINS=\"*\"")
         ELSE Propagated(out)
    ELSE IF ~Ok(out)
    THEN Throw("Ollama API Error: " \o ToString(out.status) \o " " \o out.statusText)
    ELSE IF ~out.jsonOk THEN Propagated(out)
    ELSE Return([response |-> Field(out.data, "response")])

\* the Ollama daemon: its root answers 200 unless CORS blocks the page,
\* /api/generate answers a completion, or 404 for a model it does not have
OllamaOutcomes(srv, req) ==
    IF req.url = OllamaBase /\ req.method = "GET"
    THEN {Stay(srv, Text(200, StatusText(200), "Ollama is running")),
          Stay(srv, Reject("Failed to fetch"))}
    ELSE IF req.url = OllamaBase \o "/api/generate" /\ req.method = "POST"
    THEN {Stay(srv, Json(200, [response |-> "pong"])),
          Stay(srv, Text(404, StatusText(404), "model not found"))}
    ELSE {Stay(srv, Reject("Failed to fetch"))}

\* the outcomes of fetch(req) the App is run against, whichever server the
\* url names (a dropped connection and a failing server, which the App
\* handles as it handles a refusal, are left to SpecClient)
FetchOutcomes(srv, req) ==
    IF StartsWith(req.url, OllamaBase) THEN OllamaOutcomes(srv, req)
    ELSE Served(srv, req)

----------------------------------------------------------------------------
(* App *)

\* the first preset; the others differ in id and text only
PROMPT_PRESETS ==
    << [id |-> "joke", text |-> "Tell me a short, witty programming joke."] >>

\* what the user types or picks in the settings form (host and port go
\* through the same handler as apiKey)
ConfigEdits ==
    {<<"provider", v>> : v \in {"ollama", "anythingllm"}}
    \cup {<<"model", v>> : v \in {""}}
    \cup {<<"apiKey", v>> : v \in {"", DEFAULT_API_KEY}}

\* what the user types into the argument field of a parameter: a slug, or
\* nothing after clearing the field (name and message are left as pre-filled)
ArgValues(name) ==
    CASE name = "slug" -> {"ws-1"}
      [] name = "mode" -> {""}
      [] OTHER         -> {}

\* the server the App is pointed at when it starts
InitAppServer ==
    [workspaces |-> <<NewWorkspace(1, "Docs")>>, nextId |-> 2]

Init ==
    /\ server = InitAppServer
    /\ call = [op |-> "none"]
    /\ created = {}
    /\ deleted = {}
    /\ config = [provider |-> DEFAULT_PROVIDER, host |-> DEFAULT_HOST,
                 port |-> DEFAULT_ANYTHINGLLM_PORT, model |-> DEFAULT_MODEL,
                 apiKey |-> DEFAULT_API_KEY]
    /\ status = "idle"
    /\ error = Null
    /\ response = Null
    /\ isLoading = FALSE
    /\ availableWorkspaces = <<>>
    /\ selectedMethodIdx = 0
    /\ methodArgs = InitialArgs(0, DEFAULT_MODEL)
    /\ apiResult = Null
    /\ inflight = {}
    /\ sent = 0

\* the API Explorer (workspace list, playground) is rendered
ExplorerShown == config.provider = "anythingllm" /\ status = "connected"

\* new AnythingLLMClient(config.host, config.port, config.apiKey || '')
ClientOf(cfg) == AnythingLLMClient(cfg.host, cfg.port, cfg.apiKey)

\* an async handler suspended at its await: what it will do with the outcome
\* is fixed by kind, op, args and client, all captured when it started
Pending(id, kind, op, args, client, req) ==
    [id |-> id, kind |-> kind, op |-> op, args |-> args, client |-> client, req |-> req]

\* fetchWorkspaces(client): runs up to `await sdk.getWorkspaces()`
FetchWorkspacesPending(id, client) ==
    Pending(id, "workspaces", "getWorkspaces", <<>>, client, getWorkspacesFetch(client))

\* useEffect(..., [config.provider])
ProviderEffect(cfg) ==
    [cfg EXCEPT !.port = IF cfg.provider = "ollama" THEN DEFAULT_OLLAMA_PORT
                         ELSE DEFAULT_ANYTHINGLLM_PORT,
                !.model = IF cfg.provider = "ollama" THEN "llama3" ELSE DEFAULT_MODEL]

\* handleConfigChange, then the effects its state change triggers
HandleConfigChange ==
    \E e \in ConfigEdits :
        LET name == e[1]
            edited == [config EXCEPT ![name] = e[2]]
            providerChanged == edited.provider # config.provider
            next == IF providerChanged THEN ProviderEffect(edited) ELSE edited
            modelChanged == next.model # config.model
        IN
        /\ e[2] # config[name]
        /\ config' = next
        /\ status' = "idle"
        /\ error' = IF name \in {"apiKey", "model"} \/ providerChanged THEN Null ELSE error
        /\ availableWorkspaces' = IF providerChanged THEN <<>> ELSE availableWorkspaces
        /\ methodArgs' = IF modelChanged THEN InitialArgs(selectedMethodIdx, next.model)
                         ELSE methodArgs
        /\ apiResult' = IF providerChanged \/ modelChanged THEN Null ELSE apiResult
        /\ UNCHANGED <<server, call, created, deleted, response, isLoading,
                       selectedMethodIdx, inflight, sent>>

\* selectWorkspace(slug), then the pre-fill effect
SelectWorkspace ==
    \E i \in DOMAIN availableWorkspaces :
        LET slug == availableWorkspaces[i].slug IN
        /\ ExplorerShown
        /\ slug # config.model
        /\ config' = [config EXCEPT !.model = slug]
        /\ methodArgs' = InitialArgs(selectedMethodIdx, slug)
        /\ apiResult' = Null
        /\ UNCHANGED <<server, call, created, deleted, status, error, response, isLoading,
                       availableWorkspaces, selectedMethodIdx, inflight, sent>>

\* the method <select>: setSelectedMethodIdx, then the pre-fill effect (the
\* result pane is reset and waits for no execution)
SelectMethod ==
    \E idx \in MethodIndexes :
        /\ ExplorerShown
        /\ idx # selectedMethodIdx
        /\ selectedMethodIdx' = idx
        /\ methodArgs' = InitialArgs(idx, config.model)
        /\ apiResult' = Null
        /\ call' = [op |-> "none"]
        /\ UNCHANGED <<server, created, deleted, config, status, error, response,
                       isLoading, availableWorkspaces, inflight, sent>>

\* an argument <input>: setMethodArgs(prev => ({...prev, [param.name]: value}))
EditArg ==
    \E n \in DOMAIN methodArgs : \E v \in ArgValues(n) :
        /\ ExplorerShown
        /\ v # methodArgs[n]
        /\ methodArgs' = [methodArgs EXCEPT ![n] = v]
        /\ UNCHANGED <<server, call, created, deleted, config, status, error, response,
                       isLoading, availableWorkspaces, selectedMethodIdx, apiResult,
                       inflight, sent>>

\* the "Use current workspace" button of a slug parameter
UseCurrentWorkspace ==
    \E n \in DOMAIN methodArgs :
        /\ ExplorerShown
        /\ ParamNamed(Definition(selectedMethodIdx), n).type = "slug"
        /\ config.model # ""
        /\ methodArgs[n] # config.model
        /\ methodArgs' = [methodArgs EXCEPT ![n] = config.model]
        /\ UNCHANGED <<server, call, created, deleted, config, status, error, response,
                       isLoading, availableWorkspaces, selectedMethodIdx, apiResult,
                       inflight, sent>>

\* the Clear button of the result pane
ClearApiResult ==
    /\ ExplorerShown
    /\ apiResult # Null /\ apiResult # ""
    /\ apiResult' = Null
    /\ UNCHANGED <<server, call, created, deleted, config, status, error, response,
                   isLoading, availableWorkspaces, selectedMethodIdx, methodArgs,
                   inflight, sent>>

\* checkConnection, up to its await (the button is disabled while checking)
CheckConnection ==
    /\ status # "checking"
    /\ sent < MaxSent
    /\ status' = "checking"
    /\ error' = Null
    /\ sent' = sent + 1
    /\ inflight' = inflight \cup
          {IF config.provider = "ollama"
           THEN Pending(sent + 1, "check", "ollama.checkConnection", <<>>,
                        ClientOf(config), ollamaCheckConnectionFetch(config))
           ELSE Pending(sent + 1, "check", "validateConnection", <<>>,
                        ClientOf(config), validateConnectionFetch(ClientOf(config)))}
    /\ UNCHANGED <<server, call, created, deleted, config, response, isLoading,
                   availableWorkspaces, selectedMethodIdx, methodArgs, apiResult>>

\* the Retry button of the empty workspace list: fetchWorkspaces()
FetchWorkspaces ==
    /\ ExplorerShown
    /\ Len(availableWorkspaces) = 0
    /\ sent < MaxSent
    /\ sent' = sent + 1
    /\ inflight' = inflight \cup {FetchWorkspacesPending(sent + 1, ClientOf(config))}
    /\ UNCHANGED <<server, call, created, deleted, config, status, error, response,
                   isLoading, availableWorkspaces, selectedMethodIdx, methodArgs, apiResult>>

\* handlePromptClick on a status of 'error': refused
PromptRefusedOnError ==
    /\ ~isLoading
    /\ status = "error"
    /\ error' = "Please fix connection settings first."
    /\ UNCHANGED <<server, call, created, deleted, config, status, response, isLoading,
                   availableWorkspaces, selectedMethodIdx, methodArgs, apiResult,
                   inflight, sent>>

\* handlePromptClick without an API key for AnythingLLM: refused
PromptRefusedNoKey ==
    /\ ~isLoading
    /\ status # "error"
    /\ config.provider = "anythingllm" /\ Trim(config.apiKey) = ""
    /\ error' = "API Key is required for AnythingLLM."
    /\ UNCHANGED <<server, call, created, deleted, config, status, response, isLoading,
                   availableWorkspaces, selectedMethodIdx, methodArgs, apiResult,
                   inflight, sent>>

\* handlePromptClick, accepted, up to its await
HandlePromptClick ==
    \E i \in DOMAIN PROMPT_PRESETS :
        LET promptText == PROMPT_PRESETS[i].text
            client == ClientOf(config)
        IN
        /\ ~isLoading
        /\ status # "error"
        /\ ~(config.provider = "anythingllm" /\ Trim(config.apiKey) = "")
        /\ sent < MaxSent
        /\ isLoading' = TRUE
        /\ response' = Null
        /\ error' = Null
        /\ apiResult' = Null
        /\ sent' = sent + 1
        /\ inflight' = inflight \cup
              {IF config.provider = "ollama"
               THEN Pending(sent + 1, "prompt", "ollama.generateResponse", <<promptText>>,
                            client, ollamaGenerateResponseFetch(config, promptText))
               ELSE Pending(sent + 1, "prompt", "sendChat", <<config.model, promptText>>,
                            client, sendChatFetch(client, <<config.model, promptText>>))}
        /\ UNCHANGED <<server, call, created, deleted, config, status,
                       availableWorkspaces, selectedMethodIdx, methodArgs>>

RefreshAfter_EvenOnFailure(op, res) == Includes(op, "Workspace")

\* fetchWorkspaces(client) is reached: the awaited call did not throw and
\* definition.method.includes('Workspace')
RefreshAfter(op, res) == res.ok /\ Includes(op, "Workspace")

ExecArgs_Reversed(def, bound) ==
    [i \in DOMAIN def.params |-> bound[def.params[Len(def.params) + 1 - i].name]]

\* definition.params.map(p => methodArgs[p.name])
ExecArgs(def, bound) == [i \in DOMAIN def.params |-> bound[def.params[i].name]]

\* executeApiMethod, up to its await; when client[definition.method] is no
\* function the throw is caught at once and nothing is sent; otherwise the
\* result pane now waits for this execution
ExecuteApiMethod ==
    LET definition == Definition(selectedMethodIdx)
        client == ClientOf(config)
        args == ExecArgs(definition, methodArgs)
    IN
    /\ ExplorerShown
    /\ sent < MaxSent
    /\ IF TypeofMember(definition.method) # "function"
       THEN /\ apiResult' = "Error: " \o "Method not implemented in SDK"
            /\ UNCHANGED <<inflight, sent, call>>
       ELSE /\ apiResult' = "Executing..."
            /\ sent' = sent + 1
            /\ inflight' = inflight \cup
                  {Pending(sent + 1, "exec", definition.method, args, client,
                           FetchOf(client, definition.method, args))}
            /\ call' = [op |-> "exec", id |-> sent + 1]
    /\ UNCHANGED <<server, created, deleted, config, status, error, response,
                   isLoading, availableWorkspaces, selectedMethodIdx, methodArgs>>

\* checkConnection after its await
CheckConnectionCompletes ==
    \E p \in inflight : \E o \in FetchOutcomes(server, p.req) :
        LET res == IF p.op = "ollama.checkConnection" THEN ollamaCheckConnection(o.out)
                   ELSE validateConnection(o.out)
            good == IF p.op = "ollama.checkConnection" THEN res.value.success
                    ELSE res.value.authenticated
            refresh == good /\ p.op = "validateConnection"
        IN
        /\ p.kind = "check"
        /\ server' = o.server
        /\ status' = IF good THEN "connected" ELSE "error"
        /\ error' = IF good THEN error
                    ELSE MessageOr(IF "error" \in DOMAIN res.value THEN res.value.error ELSE "",
                                   "Connection failed")
        /\ inflight' = (inflight \ {p}) \cup
              (IF refresh THEN {FetchWorkspacesPending(sent + 1, p.client)} ELSE {})
        /\ sent' = IF refresh THEN sent + 1 ELSE sent
        /\ UNCHANGED <<call, created, deleted, config, response, isLoading,
                       availableWorkspaces, selectedMethodIdx, methodArgs, apiResult>>

\* fetchWorkspaces after its await
FetchWorkspacesCompletes ==
    \E p \in inflight : \E o \in FetchOutcomes(server, p.req) :
        LET res == getWorkspaces(o.out) IN
        /\ p.kind = "workspaces"
        /\ server' = o.server
        /\ availableWorkspaces' = IF res.ok THEN res.value ELSE availableWorkspaces
        /\ inflight' = inflight \ {p}
        /\ UNCHANGED <<call, created, deleted, config, status, error, response, isLoading,
                       selectedMethodIdx, methodArgs, apiResult, sent>>

PromptCompletes_NoFinally ==
    \E p \in inflight : \E o \in FetchOutcomes(server, p.req) :
        LET ollama == p.op = "ollama.generateResponse"
            res == IF ollama THEN ollamaGenerateResponse(o.out) ELSE sendChat(o.out)
        IN
        /\ p.kind = "prompt"
        /\ server' = o.server
        /\ response' = IF ~res.ok THEN response
                       ELSE IF ollama THEN res.value.response
                       ELSE res.value.textResponse
        /\ apiResult' = IF res.ok /\ ~ollama /\ Len(res.value.sources) > 0
                        THEN JObject(<<JMember("sources", SourcesJson(res.value.sources, 1))>>, 0)
                        ELSE apiResult
        /\ status' = IF res.ok THEN "connected" ELSE "error"
        /\ error' = IF res.ok THEN error
                    ELSE "Failed to generate response. " \o res.error
        /\ isLoading' = IF res.ok THEN FALSE ELSE isLoading
        /\ inflight' = inflight \ {p}
        /\ UNCHANGED <<call, created, deleted, config, availableWorkspaces,
                       selectedMethodIdx, methodArgs, sent>>

\* handlePromptClick after its await
PromptCompletes ==
    \E p \in inflight : \E o \in FetchOutcomes(server, p.req) :
        LET ollama == p.op = "ollama.generateResponse"
            res == IF ollama THEN ollamaGenerateResponse(o.out) ELSE sendChat(o.out)
        IN
        /\ p.kind = "prompt"
        /\ server' = o.server
        /\ response' = IF ~res.ok THEN response
                       ELSE IF ollama THEN res.value.response
                       ELSE res.value.textResponse
        /\ apiResult' = IF res.ok /\ ~ollama /\ Len(res.value.sources) > 0
                        THEN JObject(<<JMember("sources", SourcesJson(res.value.sources, 1))>>, 0)
                        ELSE apiResult
        /\ status' = IF res.ok THEN "connected" ELSE "error"
        /\ error' = IF res.ok THEN error
                    ELSE "Failed to generate response. " \o res.error
        /\ isLoading' = FALSE
        /\ inflight' = inflight \ {p}
        /\ UNCHANGED <<call, created, deleted, config, availableWorkspaces,
                       selectedMethodIdx, methodArgs, sent>>

\* executeApiMethod after its await
ExecuteCompletes ==
    \E p \in inflight : \E o \in FetchOutcomes(server, p.req) :
        LET res == ResultOf(p.op, p.args, o.out)
            refresh == RefreshAfter(p.op, res)
        IN
        /\ p.kind = "exec"
        /\ server' = o.server
        /\ apiResult' = IF res.ok THEN Stringify(p.op, res.value)
                        ELSE "Error: " \o res.error
        /\ inflight' = (inflight \ {p}) \cup
              (IF refresh THEN {FetchWorkspacesPending(sent + 1, p.client)} ELSE {})
        /\ sent' = IF refresh THEN sent + 1 ELSE sent
        /\ UNCHANGED <<call, created, deleted, config, status, error, response, isLoading,
                       availableWorkspaces, selectedMethodIdx, methodArgs>>

Next ==
    \/ HandleConfigChange
    \/ SelectWorkspace
    \/ SelectMethod
    \/ EditArg
    \/ UseCurrentWorkspace
    \/ ClearApiResult
    \/ CheckConnection
    \/ FetchWorkspaces
    \/ PromptRefusedOnError
    \/ PromptRefusedNoKey
    \/ HandlePromptClick
    \/ ExecuteApiMethod
    \/ CheckConnectionCompletes
    \/ FetchWorkspacesCompletes
    \/ PromptCompletes
    \/ ExecuteCompletes

Spec == Init /\ [][Next]_vars

----------------------------------------------------------------------------
(* SpecPlayground: executeApiMethod, one execution at a time and awaited, on *)
(* the descriptors of SDK_METHODS and on descriptors of a registry that has  *)
(* drifted from the client                                                   *)

\* entries of a registry that no longer matches the client: a method that
\* was renamed, a name the client never had, a member that is no method
DriftedDescriptors ==
    {[method |-> "removeWorkspace", label |-> "Delete Workspace",
      params |-> << [name |-> "slug", type |-> "slug", required |-> TRUE] >>],
     [method |-> "listWorkspaces", label |-> "Get All Workspaces", params |-> <<>>],
     [method |-> "baseUrl", label |-> "Base URL", params |-> <<>>]}

Descriptors == {SDK_METHODS[i] : i \in DOMAIN SDK_METHODS} \cup DriftedDescriptors

\* what the argument fields may hold when Execute is pressed
BoundValues(name) ==
    CASE name = "slug"    -> {"ws-1", DEFAULT_MODEL}
      [] name = "name"    -> {"Docs"}
      [] name = "message" -> {"hi"}
      [] name = "mode"    -> {"chat", "query", ""}

Bindings(def) == {b \in [ParamNames(def) -> {"ws-1", DEFAULT_MODEL, "Docs", "hi", "chat", "query", ""}] :
                     \A n \in ParamNames(def) : b[n] \in BoundValues(n)}

InitPlayground ==
    /\ server = InitServer
    /\ call = [op |-> "none"]
    /\ created = {}
    /\ deleted = {}
    /\ \E h \in Hosts, k \in Keys :
          config = [provider |-> DEFAULT_PROVIDER, host |-> h,
                    port |-> DEFAULT_ANYTHINGLLM_PORT, model |-> DEFAULT_MODEL,
                    apiKey |-> k]
    /\ status = "connected"
    /\ error = Null
    /\ response = Null
    /\ isLoading = FALSE
    /\ availableWorkspaces = <<>>
    /\ selectedMethodIdx = 0
    /\ methodArgs = EmptyObject
    /\ apiResult = Null
    /\ inflight = {}
    /\ sent = 0

\* executeApiMethod on one descriptor, from the click to its last state
\* update: call records the requests it sent (reqs), the error or value its
\* try block ended with (res) and, when fetchWorkspaces(client) ran after it,
\* what getWorkspaces ended with there (list)
Execute ==
    \E definition \in Descriptors : \E bound \in Bindings(definition) :
        LET client == ClientOf(config)
            args == ExecArgs(definition, bound)
        IN
        /\ methodArgs' = bound
        /\ IF TypeofMember(definition.method) # "function"
           THEN LET res == Throw("Method not implemented in SDK") IN
                /\ call' = [op |-> definition.method, args |-> args, reqs |-> <<>>, res |-> res]
                /\ apiResult' = "Error: " \o res.error
                /\ UNCHANGED <<server, availableWorkspaces>>
           ELSE LET req == FetchOf(client, definition.method, args) IN
                \E o \in Outcomes(server, req) :
                    LET res == ResultOf(definition.method, args, o.out)
                        refresh == RefreshAfter(definition.method, res)
                        listReq == getWorkspacesFetch(client)
                    IN
                    /\ apiResult' = IF res.ok THEN Stringify(definition.method, res.value)
                                    ELSE "Error: " \o res.error
                    /\ IF refresh
                       THEN \E o2 \in Outcomes(o.server, listReq) :
                                LET list == getWorkspaces(o2.out) IN
                                /\ call' = [op |-> definition.method, args |-> args,
                                            reqs |-> <<req, listReq>>, out |-> o.out, res |-> res,
                                            list |-> list]
                                /\ availableWorkspaces' =
                                       IF list.ok THEN list.value ELSE availableWorkspaces
                                /\ server' = o2.server
                       ELSE /\ call' = [op |-> definition.method, args |-> args,
                                        reqs |-> <<req>>, out |-> o.out, res |-> res]
                            /\ server' = o.server
                            /\ UNCHANGED availableWorkspaces
        /\ UNCHANGED <<created, deleted, config, status, error, response, isLoading,
                       selectedMethodIdx, inflight, sent>>

SpecPlayground == InitPlayground /\ [][Execute]_vars

----------------------------------------------------------------------------
(* Claims about the client, checked under SpecClient *)

Validated == call.op = "validateConnection"
Answered == call.out.kind = "response"

\* C1: validateConnection returns authenticated=true if and only if /auth
\* was answered with HTTP status 200, whatever the client configuration and
\* the outcome of the request.
C1_AuthenticatedIff200 ==
    Validated =>
        /\ call.res.ok
        /\ call.res.value.authenticated <=> (Answered /\ call.out.status = 200)

C1_Witness ==
    /\ Validated /\ Answered /\ call.out.status = 200
    /\ call.res.ok /\ call.res.value.authenticated

\* C2 as stated: every 2xx status of /auth gives authenticated=true.
C2_Every2xxAuthenticates ==
    (Validated /\ Answered /\ Ok(call.out)) =>
        (call.res.ok /\ call.res.value.authenticated)

\* C2 as amended: of the 2xx statuses only 200 gives authenticated=true; any
\* other 2xx status gives authenticated=false with the error
\* "Server returned <status> <statusText>".
C2_Only200Authenticates ==
    (Validated /\ Answered /\ Ok(call.out)) =>
        /\ call.res.ok
        /\ call.out.status = 200 => call.res.value = [authenticated |-> TRUE]
        /\ call.out.status # 200 =>
              call.res.value =
                  [authenticated |-> FALSE,
                   error |-> "Server returned " \o ToString(call.out.status)
                                \o " " \o call.out.statusText]

C2_Witness ==
    /\ Validated /\ Answered /\ call.out.status = 204
    /\ call.res.ok /\ ~call.res.value.authenticated
    /\ call.res.value.error = "Server returned 204 No Content"

\* C3: validateConnection never throws; on a transport failure, a 401/403 or
\* any other non-2xx status it returns authenticated=false with a non-empty
\* error string.
C3_NeverThrows ==
    Validated =>
        /\ call.res.ok
        /\ (~Answered \/ ~Ok(call.out)) =>
              /\ ~call.res.value.authenticated
              /\ "error" \in DOMAIN call.res.value
              /\ Len(call.res.value.error) > 0

C3_Witness ==
    /\ Validated /\ ~Answered /\ call.out.message = ""
    /\ call.res.ok /\ ~call.res.value.authenticated
    /\ call.res.value.error = "Network Error"

\* C4: on 401 or 403 the error is exactly "Invalid API Key"; on every other
\* non-2xx status the error contains the status code and the status text.
C4_ErrorText ==
    (Validated /\ Answered /\ ~Ok(call.out)) =>
        /\ call.res.ok
        /\ call.out.status \in {401, 403} => call.res.value.error = "Invalid API Key"
        /\ call.out.status \notin {401, 403} =>
              /\ Includes(call.res.value.error, ToString(call.out.status))
              /\ Includes(call.res.value.error, call.out.statusText)

C4_Witness ==
    /\ Validated /\ Answered /\ call.out.status = 500
    /\ call.res.ok
    /\ call.res.value.error = "Server returned 500 Internal Server Error"

\* C5: deleteWorkspace of a slug the server does not hold fails and never
\* returns {success: true}; a delete that succeeds leaves the slug not held,
\* and a delete of a slug already deleted fails.
C5_DeleteAbsentFails ==
    [][call'.op = "deleteWorkspace" =>
          /\ call'.args[1] \notin SlugsHeld(server) => ~call'.res.ok
          /\ call'.args[1] \in deleted => ~call'.res.ok
          /\ call'.res.ok => call'.args[1] \notin SlugsHeld(server')]_vars

C5_Witness ==
    /\ call.op = "deleteWorkspace"
    /\ call.args[1] \in deleted
    /\ ~call.res.ok
    /\ call.res.error = "Failed to delete workspace: Not Found"

\* C6: once createWorkspace(name) has succeeded and no delete has been
\* issued since, a getWorkspaces that succeeds returns a list holding a
\* workspace of that name.
C6_CreatedIsListed ==
    (call.op = "getWorkspaces" /\ call.res.ok) =>
        \A name \in created : \E i \in DOMAIN call.res.value :
            call.res.value[i].name = name

C6_Witness ==
    /\ call.op = "getWorkspaces" /\ call.res.ok
    /\ "Q1 Finance" \in created
    /\ \E i \in DOMAIN call.res.value : call.res.value[i].name = "Q1 Finance"

\* C7: getWorkspaces returns the empty sequence when the server answers
\* successfully with an empty or a missing workspaces field, and fails with
\* the response's status text when the response is not successful.
C7_EmptyListOrStatusText ==
    (call.op = "getWorkspaces" /\ Answered) =>
        /\ (Ok(call.out) /\ call.out.jsonOk
              /\ ("workspaces" \notin DOMAIN call.out.data
                    \/ Len(call.out.data.workspaces) = 0))
            => (call.res.ok /\ call.res.value = <<>>)
        /\ ~Ok(call.out) => (~call.res.ok /\ call.res.error = call.out.statusText)

C7_Witness ==
    /\ call.op = "getWorkspaces" /\ Answered /\ Ok(call.out)
    /\ "workspaces" \notin DOMAIN call.out.data
    /\ call.res.ok /\ call.res.value = <<>>

\* C8: the body sendChat sends has the mode passed ("chat" or "query"), and
\* "chat" when the caller passes no mode.
C8_ModeInBody ==
    call.op = "sendChat" =>
        /\ (Len(call.args) = 3 /\ call.args[3] \in {"chat", "query"})
              => call.req.body.mode = call.args[3]
        /\ Len(call.args) = 2 => call.req.body.mode = "chat"
        /\ call.req.body.message = call.args[2]

C8_Witness ==
    /\ call.op = "sendChat" /\ Len(call.args) = 3 /\ call.args[3] = "query"
    /\ call.req.body = [message |-> "hi", mode |-> "query"]
    /\ call.res.ok

----------------------------------------------------------------------------
(* Claims about the App, checked under Spec *)

\* C9: every descriptor of SDK_METHODS names a callable member of an
\* AnythingLLMClient instance, so for no selectable index does
\* executeApiMethod end in "Method not implemented in SDK".
C9_RegistryResolves ==
    /\ \A i \in DOMAIN SDK_METHODS : TypeofMember(SDK_METHODS[i].method) = "function"
    /\ apiResult # "Error: Method not implemented in SDK"

\* the last registry entry was executed and its request is in flight
C9_Witness ==
    /\ selectedMethodIdx = Len(SDK_METHODS) - 1
    /\ apiResult = "Executing..."
    /\ \E p \in inflight : p.kind = "exec" /\ p.op = Definition(selectedMethodIdx).method

\* C10: whenever the selected method or config.model changes, the arguments
\* are bound anew, one per parameter of the selected descriptor: a slug
\* parameter gets config.model when that is non-empty; any other parameter,
\* and a slug parameter when config.model is empty, gets the descriptor's
\* defaultValue if it has one and "" otherwise.
C10_PrefillBinding ==
    [][(selectedMethodIdx' # selectedMethodIdx \/ config'.model # config.model)
        => LET params == SDK_METHODS[selectedMethodIdx' + 1].params IN
           /\ DOMAIN methodArgs' = {params[i].name : i \in DOMAIN params}
           /\ \A i \in DOMAIN params :
                methodArgs'[params[i].name] =
                    IF params[i].type = "slug" /\ config'.model # ""
                    THEN config'.model
                    ELSE IF "defaultValue" \in DOMAIN params[i]
                         THEN params[i].defaultValue
                         ELSE ""]_vars

\* sendChat selected with a workspace picked from the list: the slug is the
\* workspace's, the message is empty, the mode is the descriptor's default
C10_Witness ==
    /\ Definition(selectedMethodIdx).method = "sendChat"
    /\ config.model = "ws-1"
    /\ methodArgs = [slug |-> "ws-1", message |-> "", mode |-> "chat"]

----------------------------------------------------------------------------
(* Claims about executeApiMethod, checked under SpecPlayground *)

\* statuses a server refuses or fails a request with
RefusalStatuses == {400, 401, 403, 404, 500}

\* what executing descriptor d ends with when the server answers non-2xx
RemoteFailures ==
    {ResultOf(d.method, ExecArgs(d, b), Text(st, StatusText(st), "refused")) :
        d \in {x \in Descriptors : TypeofMember(x.method) = "function"},
        b \in [{"slug", "name", "message", "mode"} -> {"ws-1"}],
        st \in RefusalStatuses}

\* C11: executing a descriptor whose method is no callable of the client fails
\* at once, sends no request, and ends with an error of another kind (another
\* constructor name, not only another message) than any error a non-2xx
\* answer of the server ends with.
C11_DriftFailsWithItsOwnKind ==
    (call.op # "none" /\ TypeofMember(call.op) # "function") =>
        /\ ~call.res.ok
        /\ call.reqs = <<>>
        /\ \A remote \in RemoteFailures : ~remote.ok /\ remote.name # call.res.name

----------------------------------------------------------------------------
(* Claims about the client's failures, checked under SpecClient *)

\* what kind of outcome the caller of a method holds: a returned value, or
\* a thrown error of some constructor
OutcomeKind(res) == IF res.ok THEN "returned" ELSE res.name

\* C12: when the fetch of a client operation fails at transport level, the
\* client catches the failure (what the caller gets is not the rejection of
\* fetch passed through) and surfaces an outcome of another kind than the
\* outcome it surfaces for any non-2xx response to the same operation.
C12_TransportFailureCaughtAndTyped ==
    (call.op \in ClientMethods /\ call.out.kind = "reject") =>
        /\ call.res # Propagated(call.out)
        /\ \A st \in RefusalStatuses :
              OutcomeKind(ResultOf(call.op, call.args, Text(st, StatusText(st), "refused")))
                  # OutcomeKind(call.res)

\* the method and the path listed for each operation
ListedMethod(op) ==
    CASE op \in {"validateConnection", "getWorkspaces", "getWorkspace", "getUsers"} -> "GET"
      [] op \in {"createWorkspace", "updateEmbeddings", "sendChat"} -> "POST"
      [] op = "deleteWorkspace" -> "DELETE"

ListedPath(op, args) ==
    CASE op = "validateConnection" -> "/auth"
      [] op = "getWorkspaces"      -> "/workspaces"
      [] op = "getWorkspace"       -> "/workspace/" \o args[1]
      [] op = "createWorkspace"    -> "/workspace/new"
      [] op = "deleteWorkspace"    -> "/workspace/" \o args[1]
      [] op = "updateEmbeddings"   -> "/workspace/" \o args[1] \o "/update-embeddings"
      [] op = "sendChat"           -> "/workspace/" \o args[1] \o "/chat"
      [] op = "getUsers"           -> "/system/users"

\* C13: a call of a client operation issues exactly one request, whatever
\* the outcome, with the method and the path listed for the operation under
\* the client's base URL, and with the headers Authorization: Bearer {token},
\* Content-Type: application/json and Accept: application/json.
C13_OneRequestAsListed ==
    call.op \in ClientMethods =>
        /\ Len(call.reqs) = 1
        /\ call.reqs[1].method = ListedMethod(call.op)
        /\ call.reqs[1].url = call.client.baseUrl \o ListedPath(call.op, call.args)
        /\ call.reqs[1].headers = [Authorization |-> "Bearer " \o call.client.apiKey,
                                   ContentType   |-> "application/json",
                                   Accept        |-> "application/json"]

\* a createWorkspace the server failed: one POST was sent, none after it
C13_Witness ==
    /\ call.op = "createWorkspace"
    /\ call.out.kind = "response" /\ call.out.status = 500
    /\ ~call.res.ok
    /\ Len(call.reqs) = 1
    /\ call.reqs[1].method = "POST"

----------------------------------------------------------------------------
(* Claims about the requests of the playground, checked under SpecPlayground *)

\* the host without any slash at its end
RECURSIVE WithoutTrailingSlashes(_)
WithoutTrailingSlashes(host) ==
    IF Len(host) > 0 /\ SubSeq(host, Len(host), Len(host)) = "/"
    THEN WithoutTrailingSlashes(SubSeq(host, 1, Len(host) - 1))
    ELSE host

\* C14: whatever the host string, given with no, one or several trailing
\* slashes, the client's requests go to {host}:{port}/api/v1 with the host
\* freed of its trailing slashes: no slash precedes the colon of the port.
C14_BaseUrlHasNoSlashBeforePort ==
    (call.op # "none" /\ call.reqs # <<>>) =>
        /\ StartsWith(call.reqs[1].url,
                      WithoutTrailingSlashes(config.host) \o ":" \o config.port \o "/api/v1/")
        /\ ~Includes(call.reqs[1].url, "/:")

----------------------------------------------------------------------------
(* Claims about the client's error messages, checked under SpecClient *)

\* C15: createWorkspace, deleteWorkspace, updateEmbeddings and sendChat fail
\* on every non-2xx response, with a message that contains the body text the
\* server sent; the message of sendChat contains the status code as well.
C15_FailureCarriesBodyText ==
    (/\ call.op \in {"createWorkspace", "deleteWorkspace", "updateEmbeddings", "sendChat"}
     /\ call.out.kind = "response"
     /\ ~Ok(call.out)) =>
        /\ ~call.res.ok
        /\ Includes(call.res.error, call.out.text)
        /\ call.op = "sendChat" => Includes(call.res.error, ToString(call.out.status))

\* a chat refused for its key: the message has the code and the server's text
C15_Witness ==
    /\ call.op = "sendChat"
    /\ call.out.kind = "response" /\ call.out.status = 403
    /\ call.out.text = "No valid api key found."
    /\ call.res = Throw("Chat failed (403): No valid api key found.")

\* the server denies access
Denied(out) == out.status \in {401, 403}

\* C16: getUsers fails on every non-2xx response; when the server denies
\* access (401/403) the message says that admin privilege is needed, and the
\* message of any other failure differs from the message of every denial.
C16_DenialHasItsOwnMessage ==
    (call.op = "getUsers" /\ call.out.kind = "response" /\ ~Ok(call.out)) =>
        /\ ~call.res.ok
        /\ Denied(call.out) => Includes(call.res.error, "Admin privilege")
        /\ ~Denied(call.out) =>
              \A o \in UsersRefusals : Denied(o) => getUsers(o).error # call.res.error

----------------------------------------------------------------------------
(* Claims about the arguments of the playground, checked under SpecPlayground *)

\* the registry descriptor of a method
DescriptorOf(op) == CHOOSE d \in {SDK_METHODS[i] : i \in DOMAIN SDK_METHODS} : d.method = op

\* C17: executing a registry descriptor passes the bound values in the
\* descriptor's parameter order, and that order is the operation's own: the
\* value bound to slug is the slug of the request's path, the values bound to
\* name, message and mode are the name, message and mode of its body.
C17_BoundValuesReachTheirParameters ==
    (call.op \in ClientMethods /\ call.reqs # <<>>) =>
        LET def == DescriptorOf(call.op)
            req == call.reqs[1]
        IN
        /\ Len(call.args) = Len(def.params)
        /\ \A i \in DOMAIN def.params : call.args[i] = methodArgs[def.params[i].name]
        /\ "slug" \in DOMAIN methodArgs =>
              req.url = ClientOf(config).baseUrl \o ListedPath(call.op, <<methodArgs.slug>>)
        /\ "name" \in DOMAIN methodArgs => req.body.name = methodArgs.name
        /\ "message" \in DOMAIN methodArgs => req.body.message = methodArgs.message
        /\ "mode" \in DOMAIN methodArgs => req.body.mode = methodArgs.mode

\* sendChat executed with three different values bound
C17_Witness ==
    /\ call.op = "sendChat"
    /\ methodArgs = [slug |-> "ws-1", message |-> "hi", mode |-> "query"]
    /\ call.reqs[1].url = ClientOf(config).baseUrl \o "/workspace/ws-1/chat"
    /\ call.reqs[1].body = [message |-> "hi", mode |-> "query"]

\* diagnostic text is on screen: the error banner is set, or the result pane
\* shows an error
DiagnosticShown == error # Null \/ StartsWith(apiResult, "Error: ")

\* C18: every failure of an operation the playground starts, the executed
\* method or the workspace-list fetch that follows it, leaves diagnostic text
\* in error or apiResult, and a failed operation is not sent again.
C18_EveryFailureIsShown ==
    call.op # "none" =>
        /\ ~call.res.ok => (apiResult = "Error: " \o call.res.error /\ Len(call.reqs) <= 1)
        /\ ("list" \in DOMAIN call /\ ~call.list.ok) =>
              (DiagnosticShown /\ Len(call.reqs) = 2)

----------------------------------------------------------------------------
(* Claims about the App's requests, checked under Spec *)

\* C19: every chat request the App sends, from a quick prompt or from the
\* playground with whatever the user left in the mode field, has a body
\* whose mode is "chat" or "query".
C19_ModeIsChatOrQuery ==
    \A p \in inflight : p.op = "sendChat" => p.req.body.mode \in {"chat", "query"}

\* C20: executeApiMethod sends the workspace-list refresh in no step but the
\* one in which the response of the executed method arrives, and there only
\* when the method succeeded and its name contains "Workspace"; the step that
\* sends the method's request sends no refresh, so the two are never in
\* flight together.
C20_RefreshFollowsSuccess ==
    [][/\ (\E p \in inflight' \ inflight : p.kind = "exec") =>
              ~\E q \in inflight' \ inflight : q.kind = "workspaces"
       /\ \A p \in inflight \ inflight' :
              p.kind = "exec" =>
                  LET refreshes == {q \in inflight' \ inflight : q.kind = "workspaces"} IN
                  IF ~StartsWith(apiResult', "Error: ") /\ Includes(p.op, "Workspace")
                  THEN /\ Cardinality(refreshes) = 1
                       /\ \A q \in refreshes : q.client = p.client /\ q.id > p.id
                  ELSE refreshes = {}]_vars

\* a workspace was created from the playground and the list is being fetched
C20_Witness ==
    /\ Definition(selectedMethodIdx).method = "createWorkspace"
    /\ Len(server.workspaces) = 2
    /\ apiResult = Stringify("createWorkspace", server.workspaces[2])
    /\ \E q \in inflight : q.kind = "workspaces"
    /\ ~\E p \in inflight : p.kind = "exec"

----------------------------------------------------------------------------
(* Claims about overlapping handlers of the App, checked under Spec *)

\* the provider a suspended handler was started for
ProviderOf(p) ==
    IF p.op \in {"ollama.checkConnection", "ollama.generateResponse"} THEN "ollama"
    ELSE "anythingllm"

\* the handler was started with the connection settings config holds now
StartedWithCurrentSettings(p) ==
    ProviderOf(p) = config.provider /\ p.client = ClientOf(config)

\* C21: status reports on the connection settings held in config: the result
\* of a connection check or of a prompt that was started before config was
\* edited to other settings leaves status as the edit put it, and does not
\* set it to 'connected' or 'error'.
C21_StaleResultLeavesStatus ==
    [][\A p \in inflight \ inflight' :
          (p.kind \in {"check", "prompt"} /\ ~StartedWithCurrentSettings(p))
              => status' = status]_vars

\* C22: the result pane shows, once no execution is in flight any more, the
\* outcome of the execution it waits for, the one started last for the method
\* now selected: the response of an execution that was overtaken by a later
\* one, or whose method was deselected meanwhile, does not change apiResult.
C22_LatestExecutionIsShown ==
    [][\A p \in inflight \ inflight' :
          (p.kind = "exec" /\ ~\E q \in inflight' : q.kind = "exec")
              => (call = [op |-> "exec", id |-> p.id] \/ apiResult' = apiResult)]_vars

\* the quick-prompt requests that have been sent and not yet answered
PromptsInFlight == {p \in inflight : p.kind = "prompt"}

\* C23: isLoading is true exactly while a quick-prompt request is in flight,
\* and at most one is in flight at any time. A click refused by a guard
\* therefore sends nothing and leaves isLoading false, an accepted click sets
\* it, and the completion of the request, successful or failed, clears it.
C23_LoadingExactlyWhilePromptInFlight ==
    /\ isLoading <=> PromptsInFlight # {}
    /\ Cardinality(PromptsInFlight) <= 1

\* a quick prompt was accepted and has failed, and isLoading is false again
C23_Witness ==
    /\ ~isLoading
    /\ PromptsInFlight = {}
    /\ status = "error"
    /\ error # Null
    /\ StartsWith(error, "Failed to generate response. ")

====
